---- MODULE Spec2Model ----
(***************************************************************************)
(* A model of mcg.py, a Markov chain text generator.                       *)
(*                                                                         *)
(* Python values are represented as follows.                               *)
(*   str     a sequence of one-character strings, "ab" is <<"a", "b">>     *)
(*   object  a record [ty, v]: a str s is [ty |-> "str", v |-> <<s>>], a   *)
(*           tuple of strs is [ty |-> "tuple", v |-> the strs], None is    *)
(*           [ty |-> "None", v |-> <<>>]; a str never equals a tuple       *)
(*   dict    the sequence of its <<key, value>> items in insertion order   *)
(*   number  an exact rational <<numerator, denominator>> in lowest terms  *)
(***************************************************************************)
EXTENDS Integers, Sequences, FiniteSets, TLC

\* ------------------------------------------------------------------ bounds
MaxLen == 4

MaxOrder == 2

MaxWords == 3

MaxStart == 2

MaxChoices == 3

MaxWeight == 3

\* ------------------------------------------------------- python values
PyNone == [ty |-> "None", v |-> <<>>]

PyStr(s) == [ty |-> "str", v |-> <<s>>]

PyTuple(ws) == [ty |-> "tuple", v |-> ws]

SP == " "

A == <<"a">>

B == <<"b">>

CD == <<"c", "d">>

Tokens == {A, B, CD}

RECURSIVE GCD(_, _)
GCD(m, n) == IF n = 0 THEN m ELSE GCD(n, m % n)

Rat(n, d) == LET g == GCD(n, d) IN <<n \div g, d \div g>>

RatAdd(x, y) == Rat(x[1] * y[2] + y[1] * x[2], x[2] * y[2])

RatDiv(x, y) == Rat(x[1] * y[2], x[2] * y[1])

RatGeq(x, y) == x[1] * y[2] >= y[1] * x[2]

Zero == Rat(0, 1)

One == Rat(1, 1)

\* ---------------------------------------------------------------- dicts
Keys(d) == {d[j][1] : j \in 1..Len(d)}

Has(d, k) == k \in Keys(d)

IndexOf(d, k) == CHOOSE j \in 1..Len(d) : d[j][1] = k

Get(d, k) == d[IndexOf(d, k)][2]

\* d[k] = val: a new key goes last, an existing key keeps its position
Put(d, k, val) ==
    IF Has(d, k) THEN [d EXCEPT ![IndexOf(d, k)] = <<k, val>>]
    ELSE Append(d, <<k, val>>)

\* ---------------------------------------------------------- str methods
\* str.split(): the maximal runs of non-whitespace characters
RECURSIVE SplitFrom(_, _, _, _)
SplitFrom(s, j, cur, acc) ==
    IF j > Len(s) THEN (IF cur = <<>> THEN acc ELSE Append(acc, cur))
    ELSE IF s[j] = SP
         THEN SplitFrom(s, j + 1, <<>>, IF cur = <<>> THEN acc ELSE Append(acc, cur))
         ELSE SplitFrom(s, j + 1, Append(cur, s[j]), acc)

Split(s) == SplitFrom(s, 1, <<>>, <<>>)

\* sep.join(ws)
RECURSIVE Join(_, _)
Join(sep, ws) ==
    IF ws = <<>> THEN <<>>
    ELSE IF Len(ws) = 1 THEN ws[1]
    ELSE ws[1] \o sep \o Join(sep, Tail(ws))

\* list(x): the items of a tuple, the characters of a str
List(x) ==
    IF x.ty = "tuple" THEN x.v
    ELSE [j \in 1..Len(x.v[1]) |-> <<x.v[1][j]>>]

\* ------------------------------------------------------ module functions
\* cascade(iterable, n): the tuples of n consecutive items
cascade(iterable, n) ==
    IF Len(iterable) < n THEN <<>>
    ELSE [j \in 1..(Len(iterable) - n + 1) |-> SubSeq(iterable, j, j + n - 1)]

RECURSIVE SumFrom(_, _)
SumFrom(choices, j) ==
    IF j > Len(choices) THEN Zero
    ELSE RatAdd(choices[j][2], SumFrom(choices, j + 1))

\* sum(w for c, w in choices)
SumWeights(choices) == SumFrom(choices, 1)

AssertionError == <<"AssertionError">>

SelectsStrict(upto, w, r) == ~RatGeq(r, RatAdd(upto, w))

\* the test of line 45
Selects(upto, w, r) == RatGeq(RatAdd(upto, w), r)

RECURSIVE Walk(_, _, _, _)
Walk(choices, r, j, upto) ==
    IF j > Len(choices) THEN AssertionError
    ELSE IF Selects(upto, choices[j][2], r) THEN choices[j][1]
    ELSE Walk(choices, r, j + 1, RatAdd(upto, choices[j][2]))

\* weighted_choice(choices) when random.uniform(0, total) returns r
weighted_choice(choices, r) == Walk(choices, r, 1, Zero)

RECURSIVE LCMFrom(_, _)
LCMFrom(choices, j) ==
    IF j > Len(choices) THEN 1
    ELSE LET m == choices[j][2][2]
             n == LCMFrom(choices, j + 1)
         IN (m * n) \div GCD(m, n)

\* random.uniform(0, total): the multiples of half the weights' common unit
\* that lie in [0, total], both ends included
Uniform(choices) ==
    LET total == SumWeights(choices)
        grid == 2 * LCMFrom(choices, 1)
    IN {Rat(k, grid) : k \in 0..((total[1] * grid) \div total[2])}

\* ------------------------------------------------------------ class Chain
\* Chain.__init__: table_key_type
TableKeyType(n) == IF n = 1 THEN "str" ELSE "tuple"

ErrNoWords == "No words encountered in input."

ErrNotEnough == "Not enough words to create a higher order Markov chain."

ErrMalformed == "Malformed transition dictionary."

ErrInitial == "Initial words are not present in the source text."

ErrType == "TypeError"

ErrAssert == "Out of probability distribution!"

NoError == ""

\* lines 97-103: the names bound by one pass of the loop
FirstWords(tkt, word_tpl) ==
    IF tkt = "str" THEN PyStr(word_tpl[1])
    ELSE PyTuple(SubSeq(word_tpl, 1, Len(word_tpl) - 1))

LastWords(tkt, word_tpl) ==
    IF tkt = "str" THEN PyStr(word_tpl[2])
    ELSE PyTuple(SubSeq(word_tpl, 2, Len(word_tpl)))

NextWord(tkt, word_tpl) ==
    IF tkt = "str" THEN word_tpl[2] ELSE word_tpl[Len(word_tpl)]

CountTransitionNoInc(d, first_words, next_word) ==
    LET d1 == IF ~Has(d, first_words) THEN Put(d, first_words, <<>>) ELSE d
    IN Put(d1, first_words, Put(Get(d1, first_words), next_word, One))

\* lines 105-111
CountTransition(d, first_words, next_word) ==
    LET d1 == IF ~Has(d, first_words) THEN Put(d, first_words, <<>>) ELSE d
        row == Get(d1, first_words)
    IN IF ~Has(row, next_word)
       THEN Put(d1, first_words, Put(row, next_word, One))
       ELSE Put(d1, first_words,
                Put(row, next_word, RatAdd(Get(row, next_word), One)))

\* lines 96-111: the loop over the cascade
RECURSIVE CountLoop(_, _, _, _)
CountLoop(d, tkt, tpls, j) ==
    IF j > Len(tpls) THEN d
    ELSE CountLoop(CountTransition(d, FirstWords(tkt, tpls[j]),
                                   NextWord(tkt, tpls[j])),
                   tkt, tpls, j + 1)

\* lines 113-120
CyclicClosure(d, last_words, first_word) ==
    IF ~Has(d, last_words) THEN Put(d, last_words, <<<<first_word, One>>>>)
    ELSE LET row == Get(d, last_words)
         IN IF ~Has(row, first_word)
            THEN Put(d, last_words, Put(row, first_word, One))
            ELSE Put(d, last_words,
                     Put(row, first_word, RatAdd(Get(row, first_word), One)))

TailClosureAlways(d, last_words, last_word) ==
    CountTransition(d, last_words, last_word)

TailClosureNone(d, last_words, last_word) == d

\* lines 121-123
TailClosure(d, last_words, last_word) ==
    IF ~Has(d, last_words) THEN Put(d, last_words, <<<<last_word, One>>>>)
    ELSE d

TooShortByOne(ws, n) == Len(ws) <= n + 1

\* line 92
TooShort(ws, n) == Len(ws) <= n

\* compute_transition_counts: the exception raised, if any, and the table
compute_transition_counts(src, n, cyc) ==
    LET ws == Split(src)
        tkt == TableKeyType(n)
    IN IF Len(ws) = 0 THEN [error |-> ErrNoWords, words |-> ws, dict |-> <<>>]
       ELSE IF Len(ws) = 1
       THEN [error |-> NoError, words |-> ws,
             dict |-> <<<<PyStr(ws[1]), <<<<ws[1], One>>>>>>>>]
       ELSE IF TooShort(ws, n)
       THEN [error |-> ErrNotEnough, words |-> ws, dict |-> <<>>]
       ELSE LET tpls == cascade(ws, n + 1)
                d == CountLoop(<<>>, tkt, tpls, 1)
                last_words == LastWords(tkt, tpls[Len(tpls)])
                last_word == NextWord(tkt, tpls[Len(tpls)])
            IN [error |-> NoError, words |-> ws,
                dict |-> IF cyc THEN CyclicClosure(d, last_words, ws[1])
                         ELSE TailClosure(d, last_words, last_word)]

NormalizeRowCount(row) ==
    [j \in 1..Len(row) |-> <<row[j][1], RatDiv(row[j][2], Rat(Len(row), 1))>>]

\* lines 127-133: one key of normalize_transitions
NormalizeRow(row) ==
    LET total_transitions == SumWeights(row)
    IN [j \in 1..Len(row) |-> <<row[j][1], RatDiv(row[j][2], total_transitions)>>]

normalize_transitions(d) ==
    [j \in 1..Len(d) |-> <<d[j][1], NormalizeRow(d[j][2])>>]

\* ------------------------------------------------------------------ state
VARIABLES source, order, cyclic, table_key_type, words, transition_dict,
          pc, error, initial_string, num_words, current_words, result, i,
          output, choices, r, chosen

vars == <<source, order, cyclic, table_key_type, words, transition_dict,
          pc, error, initial_string, num_words, current_words, result, i,
          output, choices, r, chosen>>

chainVars == <<source, order, cyclic, table_key_type>>

genVars == <<initial_string, num_words, current_words, result, i, output>>

wcVars == <<choices, r, chosen>>

\* ----------------------------------------------------------------- inputs
SeqsUpTo(S, n) == UNION {[1..k -> S] : k \in 0..n}

\* the texts read by main(): words joined by single blanks, or only a blank
Sources == {Join(<<SP>>, ws) : ws \in SeqsUpTo(Tokens, MaxLen)} \cup {<<SP>>}

\* where blanks are put around and between the words of a starting text
Layouts == {<<<<>>, <<SP>>, <<>>>>, <<<<SP>>, <<SP>>, <<>>>>,
            <<<<>>, <<SP>>, <<SP>>>>, <<<<>>, <<SP, SP>>, <<>>>>}

\* the -i argument: absent, or a text
InitialStrings ==
    {PyNone} \cup
    {PyStr(lay[1] \o Join(lay[2], ws) \o lay[3]) :
        ws \in SeqsUpTo({A, B}, MaxStart), lay \in Layouts}

Weights == {Rat(k, 2) : k \in 1..MaxWeight}

ChoiceLists ==
    UNION {[1..k -> {A, B} \X Weights] : k \in 1..MaxChoices}

\* ---------------------------------------------------------------- actions
\* Chain(source, order, cyclic), lines 62-70
Init ==
    /\ source \in Sources
    /\ order \in 1..MaxOrder
    /\ cyclic \in BOOLEAN
    /\ table_key_type = TableKeyType(order)
    /\ words = <<>>
    /\ transition_dict = <<>>
    /\ pc = "new"
    /\ error = NoError
    /\ initial_string = PyNone
    /\ num_words = 0
    /\ current_words = PyNone
    /\ result = <<>>
    /\ i = 0
    /\ output = PyNone
    /\ choices = <<>>
    /\ r = Zero
    /\ chosen = <<>>

\* Chain.compute_transition_counts, lines 76-123
ComputeTransitionCounts ==
    /\ pc = "new"
    /\ LET c == compute_transition_counts(source, order, cyclic)
       IN /\ words' = c.words
          /\ transition_dict' = c.dict
          /\ error' = c.error
          /\ pc' = IF c.error = NoError THEN "counted" ELSE "failed"
    /\ UNCHANGED <<chainVars, genVars, wcVars>>

\* Chain.normalize_transitions, lines 125-133
NormalizeTransitions ==
    /\ pc = "counted"
    /\ transition_dict' = normalize_transitions(transition_dict)
    /\ pc' = "normalized"
    /\ UNCHANGED <<chainVars, words, error, genVars, wcVars>>

\* Chain.process_source, lines 72-74
ProcessSource ==
    /\ pc = "new"
    /\ LET c == compute_transition_counts(source, order, cyclic)
       IN /\ words' = c.words
          /\ error' = c.error
          /\ IF c.error = NoError
             THEN /\ transition_dict' = normalize_transitions(c.dict)
                  /\ pc' = "normalized"
             ELSE /\ transition_dict' = c.dict
                  /\ pc' = "failed"
    /\ UNCHANGED <<chainVars, genVars, wcVars>>

\* lines 145-148: the key looked up for a given starting text
InitialWords(tkt, text) ==
    IF tkt = "str" THEN text ELSE PyTuple(Split(text.v[1]))

\* lines 154-157
Seed(tkt, initial_words) ==
    IF tkt = "str" THEN <<initial_words.v[1]>> ELSE List(initial_words)

\* Chain.generate, lines 142-159: up to the loop
GenerateBegin(text, n) ==
    /\ pc = "normalized"
    /\ initial_string' = text
    /\ num_words' = n
    /\ \E initial_words \in
            IF text = PyNone THEN Keys(transition_dict)
            ELSE {InitialWords(table_key_type, text)} :
         IF text # PyNone /\ ~Has(transition_dict, initial_words)
         THEN /\ error' = ErrInitial
              /\ pc' = "failed"
              /\ UNCHANGED <<current_words, result>>
         ELSE /\ result' = Seed(table_key_type, initial_words)
              /\ current_words' = initial_words
              /\ pc' = "generating"
              /\ UNCHANGED error
    /\ UNCHANGED <<chainVars, words, transition_dict, i, output, wcVars>>

\* lines 165-168
Slide(tkt, cur, next_word) ==
    IF tkt = "str" THEN PyStr(next_word)
    ELSE PyTuple(Tail(cur.v) \o <<next_word>>)

\* Chain.generate, lines 161-168, with Chain._next_word: one pass of the loop
GenerateStep ==
    /\ pc = "generating"
    /\ i < num_words - 1
    /\ IF ~Has(transition_dict, current_words)
       THEN /\ error' = ErrMalformed
            /\ pc' = "failed"
            /\ UNCHANGED <<current_words, result, i>>
       ELSE \E x \in Uniform(Get(transition_dict, current_words)) :
              LET next_word == weighted_choice(Get(transition_dict, current_words), x)
              IN IF next_word = AssertionError
                 THEN /\ error' = ErrAssert
                      /\ pc' = "failed"
                      /\ UNCHANGED <<current_words, result, i>>
                 ELSE IF table_key_type = "tuple" /\ current_words.ty = "str"
                 THEN \* str + tuple at line 168
                      /\ error' = ErrType
                      /\ pc' = "failed"
                      /\ result' = Append(result, next_word)
                      /\ UNCHANGED <<current_words, i>>
                 ELSE /\ result' = Append(result, next_word)
                      /\ current_words' = Slide(table_key_type, current_words, next_word)
                      /\ i' = i + 1
                      /\ UNCHANGED <<error, pc>>
    /\ UNCHANGED <<chainVars, words, transition_dict, initial_string, num_words,
                   output, wcVars>>

\* Chain.generate, line 170
GenerateReturn ==
    /\ pc = "generating"
    /\ i = num_words - 1
    /\ output' = PyStr(Join(<<SP>>, result))
    /\ pc' = "returned"
    /\ UNCHANGED <<chainVars, words, transition_dict, error, initial_string,
                   num_words, current_words, result, i, wcVars>>

Generate ==
    \/ \E text \in InitialStrings, n \in 1..MaxWords : GenerateBegin(text, n)
    \/ GenerateStep
    \/ GenerateReturn

Next ==
    \/ ComputeTransitionCounts
    \/ NormalizeTransitions
    \/ ProcessSource
    \/ Generate

Spec == Init /\ [][Next]_vars

\* ------------------------------------------ weighted_choice on its own
InitChoice ==
    /\ source = <<>>
    /\ order = 1
    /\ cyclic = FALSE
    /\ table_key_type = TableKeyType(order)
    /\ words = <<>>
    /\ transition_dict = <<>>
    /\ pc = "choice"
    /\ error = NoError
    /\ initial_string = PyNone
    /\ num_words = 0
    /\ current_words = PyNone
    /\ result = <<>>
    /\ i = 0
    /\ output = PyNone
    /\ choices \in ChoiceLists
    /\ r = Zero
    /\ chosen = <<>>

\* weighted_choice(choices), lines 39-50
WeightedChoice ==
    /\ pc = "choice"
    /\ \E x \in Uniform(choices) :
         /\ r' = x
         /\ chosen' = weighted_choice(choices, x)
    /\ pc' = "chosen"
    /\ UNCHANGED <<chainVars, words, transition_dict, error, genVars, choices>>

NextChoice == WeightedChoice

SpecChoice == InitChoice /\ [][NextChoice]_vars

\* ------------------------------------------------------------ references
\* the states in which the table has been built and normalized
Normalized ==
    \/ pc \in {"normalized", "generating", "returned"}
    \/ pc = "failed" /\ error \in {ErrInitial, ErrMalformed, ErrType, ErrAssert}

\* the states of a call of generate
InGenerate ==
    \/ pc \in {"generating", "returned"}
    \/ pc = "failed" /\ error \in {ErrInitial, ErrMalformed, ErrType, ErrAssert}

\* the number of words of a text, counted at the starts of its words
NumTokens(s) ==
    Cardinality({j \in 1..Len(s) : s[j] # SP /\ (j = 1 \/ s[j - 1] = SP)})

\* a dict as a set of items, and a table as a set of <<key, set of items>>
Items(d) == {d[j] : j \in 1..Len(d)}

Table(d) == {<<d[j][1], Items(d[j][2])>> : j \in 1..Len(d)}

\* no key twice
IsDict(d) == \A j, k \in 1..Len(d) : d[j][1] = d[k][1] => j = k

\* the weight of word t under key c, 0 when absent
Weight(d, c, t) ==
    IF Has(d, c) /\ Has(Get(d, c), t) THEN Get(Get(d, c), t) ELSE Zero

\* the window of n words at position p, as the key of a table of order n
Window(ws, p, n) ==
    IF n = 1 THEN PyStr(ws[p]) ELSE PyTuple(SubSeq(ws, p, p + n - 1))

\* the positions of the windows that have a successor
Interior(ws, n) == 1..(Len(ws) - n)

\* the reference count of claim C8
RefCount(ws, n, cyc, c, t) ==
    LET last == Window(ws, Len(ws) - n + 1, n)
        seen == Cardinality({p \in Interior(ws, n) :
                               Window(ws, p, n) = c /\ ws[p + n] = t})
        tail == IF cyc
                THEN (IF c = last /\ t = ws[1] THEN 1 ELSE 0)
                ELSE (IF /\ c = last
                         /\ \A p \in Interior(ws, n) : Window(ws, p, n) # c
                         /\ t = ws[Len(ws)]
                      THEN 1 ELSE 0)
    IN seen + tail

\* ----------------------------------------------------------------- claims
\* C1: every Context that generate looks up is a key of the table, so the
\* "Malformed transition dictionary" error is never raised, for every order,
\* mode, start and length.
C1_Closure ==
    /\ error # ErrMalformed
    /\ (pc = "generating" /\ i < num_words - 1)
          => Has(transition_dict, current_words)

\* C2: with a corpus of exactly one token T and no starting text, generate
\* raises no error for any order and length, and emits only T.
C2_SingleToken ==
    (NumTokens(source) = 1 /\ InGenerate /\ initial_string = PyNone)
       => /\ error = NoError
          /\ \A j \in 1..Len(result) : result[j] = words[1]
          /\ pc = "returned"
                => \A j \in 1..Len(Split(output.v[1])) :
                      Split(output.v[1])[j] = words[1]

\* C3: compute_transition_counts raises the empty-input error exactly for a
\* corpus of zero tokens, the insufficient-data error exactly for a corpus of
\* more than one and at most N tokens, and otherwise raises neither and
\* leaves a table with at least one key.
C3_Validation ==
    pc # "new"
       => /\ error = ErrNoWords <=> NumTokens(source) = 0
          /\ error = ErrNotEnough
                <=> (NumTokens(source) > 1 /\ NumTokens(source) <= order)
          /\ (NumTokens(source) = 1 \/ NumTokens(source) > order)
                => /\ error \notin {ErrNoWords, ErrNotEnough}
                   /\ Len(transition_dict) >= 1

C3_Witness ==
    /\ pc = "failed"
    /\ error = ErrNotEnough
    /\ NumTokens(source) = order
    /\ order > 1

\* C4: after process_source succeeds every key maps to a non-empty
\* distribution whose weights are strictly positive, each equal to the raw
\* count of its token divided by the sum of the raw counts of the key, and
\* the weights of every key sum to exactly 1.
C4_Normalized ==
    /\ Normalized
          => \A c \in Keys(transition_dict) :
               LET row == Get(transition_dict, c)
               IN /\ row # <<>>
                  /\ SumWeights(row) = One
                  /\ \A j \in 1..Len(row) : row[j][2][1] > 0 /\ row[j][2][2] > 0
    /\ pc = "normalized"
          => LET raw == compute_transition_counts(source, order, cyclic).dict
             IN /\ Keys(transition_dict) = Keys(raw)
                /\ \A c \in Keys(transition_dict) :
                     LET row == Get(transition_dict, c)
                         tot == SumWeights(Get(raw, c))
                     IN /\ Keys(row) = Keys(Get(raw, c))
                        /\ \A j \in 1..Len(row) :
                             row[j][2][1] * tot[1]
                                = Weight(raw, c, row[j][1])[1] * row[j][2][2]

C4_Witness ==
    /\ pc = "normalized"
    /\ \E c \in Keys(transition_dict) :
         /\ Len(Get(transition_dict, c)) >= 2
         /\ \E j \in 1..Len(Get(transition_dict, c)) :
              Get(transition_dict, c)[j][2] = Rat(2, 3)

\* C5: with a starting text, generate raises the unknown-context error
\* exactly when the Context made of the words of the text (a bare word for
\* order 1, an N-tuple otherwise) is no key of the table; when it raises
\* nothing is emitted, and otherwise the output begins with those words.
C5_StartingContext ==
    (InGenerate /\ initial_string # PyNone)
       => LET toks == Split(initial_string.v[1])
              ctx == IF order = 1 /\ Len(toks) = 1 THEN PyStr(toks[1])
                     ELSE PyTuple(toks)
          IN /\ error = ErrInitial <=> ~Has(transition_dict, ctx)
             /\ error = ErrInitial => (result = <<>> /\ output = PyNone)
             /\ error # ErrInitial
                   => /\ Len(result) >= Len(toks)
                      /\ SubSeq(result, 1, Len(toks)) = toks

\* C6: a successful generate of length L returns the starting Context
\* followed by exactly L-1 drawn words: L words for order 1 and L+N-1 words
\* for order N > 1.
C6_OutputLength ==
    pc = "returned"
       => /\ i = num_words - 1
          /\ Len(Split(output.v[1]))
                = IF order = 1 THEN num_words ELSE num_words + order - 1

\* C7 as stated: "a b a b", order 1, non-cyclic, gives the raw counts
\* a -> {b: 2}, b -> {a: 1, b: 1} and the table a -> {b: 1}, b -> {a: 1/2,
\* b: 1/2}.
C7_Original ==
    (words = <<A, B, A, B>> /\ order = 1 /\ ~cyclic)
       => /\ pc = "counted"
             => Table(transition_dict)
                  = {<<PyStr(A), {<<B, Rat(2, 1)>>}>>,
                     <<PyStr(B), {<<A, Rat(1, 1)>>, <<B, Rat(1, 1)>>}>>}
          /\ pc = "normalized"
             => Table(transition_dict)
                  = {<<PyStr(A), {<<B, Rat(1, 1)>>}>>,
                     <<PyStr(B), {<<A, Rat(1, 2)>>, <<B, Rat(1, 2)>>}>>}

\* C7 as amended: "a b a b", order 1, non-cyclic, gives the raw counts
\* a -> {b: 2}, b -> {a: 1} and the table a -> {b: 1}, b -> {a: 1}: the last
\* Context "b" is already a key and gets no transition to itself.
C7_Amended ==
    (words = <<A, B, A, B>> /\ order = 1 /\ ~cyclic)
       => /\ IsDict(transition_dict)
          /\ pc = "counted"
             => Table(transition_dict)
                  = {<<PyStr(A), {<<B, Rat(2, 1)>>}>>,
                     <<PyStr(B), {<<A, Rat(1, 1)>>}>>}
          /\ pc = "normalized"
             => Table(transition_dict)
                  = {<<PyStr(A), {<<B, Rat(1, 1)>>}>>,
                     <<PyStr(B), {<<A, Rat(1, 1)>>}>>}

C7_Witness ==
    /\ words = <<A, B, A, B>>
    /\ order = 1
    /\ ~cyclic
    /\ pc = "normalized"
    /\ Weight(transition_dict, PyStr(B), A) = One

\* C8: for a corpus of more than N words the raw count of word t under
\* Context c is the number of positions where c is followed by t, plus 1 in
\* cyclic mode when c is the final window and t the first word, plus 1 in
\* non-cyclic mode when c is the final window, occurs as no interior window
\* and t is the final word; nothing else is in the table.
C8_RawCounts ==
    (pc = "counted" /\ Len(words) > order)
       => /\ IsDict(transition_dict)
          /\ \A j \in 1..Len(transition_dict) :
               /\ transition_dict[j][2] # <<>>
               /\ IsDict(transition_dict[j][2])
          /\ \A c \in Keys(transition_dict)
                      \cup {Window(words, p, order) :
                              p \in 1..(Len(words) - order + 1)} :
               \A t \in {words[p] : p \in 1..Len(words)}
                           \cup (IF Has(transition_dict, c)
                                 THEN Keys(Get(transition_dict, c)) ELSE {}) :
                  Weight(transition_dict, c, t)
                     = Rat(RefCount(words, order, cyclic, c, t), 1)

C8_Witness ==
    /\ pc = "counted"
    /\ Len(words) > order
    /\ order > 1
    /\ cyclic
    /\ \E c \in Keys(transition_dict) :
         /\ c = Window(words, Len(words) - order + 1, order)
         /\ Weight(transition_dict, c, words[1]) = Rat(2, 1)

\* the cumulative weight of the first j choices
RECURSIVE Cumulative(_, _)
Cumulative(list, j) ==
    IF j = 0 THEN Zero ELSE RatAdd(Cumulative(list, j - 1), list[j][2])

\* C9: for a non-empty list of positive weights and a draw r in [0, total],
\* weighted_choice returns the first listed token whose cumulative weight is
\* at least r; the closing assertion is never reached.
C9_WeightedChoice ==
    pc = "chosen"
       => /\ chosen # AssertionError
          /\ \E j \in 1..Len(choices) :
               /\ chosen = choices[j][1]
               /\ RatGeq(Cumulative(choices, j), r)
               /\ \A k \in 1..(j - 1) : ~RatGeq(Cumulative(choices, k), r)

C9_Witness ==
    /\ pc = "chosen"
    /\ Len(choices) >= 2
    /\ r = Cumulative(choices, 1)
    /\ choices[1][1] # choices[2][1]
    /\ chosen = choices[1][1]

\* the adjacent pairs of words of a sequence
Pairs(ws) == {<<ws[p], ws[p + 1]>> : p \in 1..(Len(ws) - 1)}

\* the pair added by the tail closure of an order-1 table
ClosurePairs(ws, cyc) ==
    IF cyc THEN {<<ws[Len(ws)], ws[1]>>}
    ELSE IF \A p \in 1..(Len(ws) - 1) : ws[p] # ws[Len(ws)]
         THEN {<<ws[Len(ws)], ws[Len(ws)]>>}
         ELSE {}

\* C10: with order 1 and a corpus of at least two words, every word of the
\* corpus and every word of every distribution is a key, generate never
\* raises the malformed-table error, and every adjacent pair of the output
\* is an adjacent pair of the corpus or the tail closure pair.
C10_OrderOne ==
    (order = 1 /\ Len(words) >= 2 /\ pc \notin {"new", "failed"})
       \/ (order = 1 /\ Len(words) >= 2 /\ InGenerate)
       => /\ \A p \in 1..Len(words) : Has(transition_dict, PyStr(words[p]))
          /\ \A c \in Keys(transition_dict) :
               \A t \in Keys(Get(transition_dict, c)) :
                  Has(transition_dict, PyStr(t))
          /\ error # ErrMalformed
          /\ Pairs(result) \subseteq Pairs(words) \cup ClosurePairs(words, cyclic)
          /\ pc = "returned"
                => Pairs(Split(output.v[1]))
                      \subseteq Pairs(words) \cup ClosurePairs(words, cyclic)

C10_Witness ==
    /\ order = 1
    /\ ~cyclic
    /\ pc = "returned"
    /\ Len(words) >= 2
    /\ ClosurePairs(words, cyclic) # {}
    /\ ClosurePairs(words, cyclic) \subseteq Pairs(Split(output.v[1]))
    /\ Len(result) = MaxWords

====
